---------------------------- MODULE Spec2Model ----------------------------
(***************************************************************************)
(* Image compression pipeline of crespoh/image-compression.                *)
(*                                                                         *)
(* The repository holds several generations of the App component.  Three   *)
(* of them are modelled, each under its own suffix:                        *)
(*   _App : src/src/App.tsx            (handlers compress inline)           *)
(*   _P1  : src/unnamed/part_001:1907+ (processImage, compressToTargetSize) *)
(*   _P4  : src/unnamed/part_004       (recompressImage, debounce, effect)  *)
(*                                                                         *)
(* Numbers.  part_001 computes sizes in IEEE-754 doubles; they are         *)
(* modelled bit for bit (Dbl below).  part_004 rounds every quotient with  *)
(* Math.round: the double quotient differs from the exact one by far less  *)
(* than its distance to the nearest half, except when the exact quotient   *)
(* is a half, where the double may land just below it (3200x12 into 2000:  *)
(* 2000 / (3200 / 12) = 7.499999999999999).  Math.round of an exact half   *)
(* is therefore modelled with both outcomes.  App.tsx's unrounded sizes    *)
(* are exact rationals <<n, d>>.                                           *)
(***************************************************************************)
EXTENDS Integers, Sequences, FiniteSets, TLC

VARIABLES
    dim,                  \* dimension-resolution harness: inputs and outputs
    enc,                  \* compressToTargetSize: the loop's local variables
    originalImage,        \* useState<ImageData | null>
    compressedImage,      \* useState<CompressedImage | null>
    selectedPreset,       \* useState<Preset>
    quality,              \* useState(80)
    isProcessing,         \* useState(false)
    error,                \* useState<string | null>
    customWidth,          \* useState(1920)
    customHeight,         \* useState(1080)
    dimensionError,       \* useState<string | null>
    recompressionTimeout, \* useState<NodeJS.Timeout | null>
    timers,               \* pending setTimeout callbacks with their closures
    tasks,                \* async functions suspended at an await
    nextSeq,              \* number of compression requests issued so far
    encodeLog,            \* the last handler step: did it call canvas.toBlob?
    typed,                \* the text last typed into a custom dimension input
    memoized,             \* part_001: customWidth, customHeight of the render whose
                          \* closures the useCallback-memoised handleFileSelect holds
    cancelled             \* the pending timers the last step cleared

vars == <<dim, enc, originalImage, compressedImage, selectedPreset, quality,
          isProcessing, error, customWidth, customHeight, dimensionError,
          recompressionTimeout, timers, tasks, nextSeq, encodeLog, typed, memoized, cancelled>>

appVars == <<originalImage, compressedImage, selectedPreset, quality,
             isProcessing, error, customWidth, customHeight, dimensionError,
             recompressionTimeout, timers, tasks, nextSeq, encodeLog, typed, memoized, cancelled>>

\* null / undefined, for object-valued state and for strings
Null == [isNull |-> TRUE]
NoError == "null"

(***************************************************************************)
(* Program constants.                                                      *)
(***************************************************************************)
MAX_DIMENSIONS == 8000
MAX_FILE_SIZE == 10485760
KB500 == 512000
MB2 == 2097152
MB8 == 8388608
MB1 == 1048576
DefaultCustomWidth == 1920
DefaultCustomHeight == 1080
DefaultQuality == 80
QualityFloor == 50
QualityStep == 5
SliderMin == 50
SliderMax_App == 90
SliderMax == 95
\* targetSize: Infinity (part_001:2048, 2121): above every blob size
Infinity == 2147483647

Presets == {"etsy", "shopee", "linkedin", "custom"}

\* part_004:28-33
PRESETS_P4 ==
    [etsy     |-> [targetSize |-> KB500, maxWidth |-> 2000, maxHeight |-> 2000, exactResize |-> FALSE],
     shopee   |-> [targetSize |-> MB2,   maxWidth |-> 3000, maxHeight |-> 3000, exactResize |-> FALSE],
     linkedin |-> [targetSize |-> MB2,   maxWidth |-> 1584, maxHeight |-> 396,  exactResize |-> TRUE],
     custom   |-> [targetSize |-> MB1,   maxWidth |-> 1920, maxHeight |-> 1080, exactResize |-> FALSE]]

\* App.tsx:25-30
PRESETS_App ==
    [etsy     |-> [targetSize |-> KB500, maxWidth |-> 2000, maxHeight |-> 2000, exactResize |-> FALSE],
     shopee   |-> [targetSize |-> MB2,   maxWidth |-> 3000, maxHeight |-> 3000, exactResize |-> FALSE],
     linkedin |-> [targetSize |-> MB8,   maxWidth |-> 1584, maxHeight |-> 396,  exactResize |-> TRUE],
     custom   |-> [targetSize |-> MB1,   maxWidth |-> 1920, maxHeight |-> 1080, exactResize |-> FALSE]]

(***************************************************************************)
(* Arithmetic on doubles, as exact rationals <<n, d>>, d > 0.              *)
(***************************************************************************)
Rat(n, d) == <<n, d>>
IntRat(n) == <<n, 1>>
RatLe(a, b) == a[1] * b[2] <= b[1] * a[2]
RatLt(a, b) == a[1] * b[2] < b[1] * a[2]
RatEq(a, b) == a[1] * b[2] = b[1] * a[2]
RatIsInt(a) == a[1] % a[2] = 0

RECURSIVE Gcd(_, _)
Gcd(a, b) == IF b = 0 THEN a ELSE Gcd(b, a % b)

\* a * k for an integer k > 0, cancelling before multiplying
RatMulInt(a, k) ==
    LET g == Gcd(k, a[2])
        n == a[1] * (k \div g)
        d == a[2] \div g
        g2 == Gcd(n, d)
    IN  IF n = 0 THEN <<0, 1>> ELSE <<n \div g2, d \div g2>>

\* k * n / d in lowest terms
RatOf(k, n, d) == RatMulInt(<<n, d>>, k)

\* Math.round(x) = floor(x + 1/2), for x the double computed for n / d
\* (n >= 0, d > 0).  halfUp: when n / d is exactly a half, whether the
\* double is that half (TRUE) or lies just below it (FALSE).
MathRound(n, d, halfUp) ==
    IF (2 * n) % (2 * d) = d /\ ~halfUp
    THEN n \div d
    ELSE (2 * n + d) \div (2 * d)

(***************************************************************************)
(* IEEE-754 doubles in [2^-14, 2^27]: an integer part i and a fraction f   *)
(* of Limbs limbs of LimbBits bits each, most significant first.  A double *)
(* in that range has 53 significant bits, so its last place is at 2^-66 or *)
(* above and the fraction holds it exactly.                                *)
(***************************************************************************)
LimbBits == 12
Limbs == 6
Mantissa == 53
LimbBase == 2 ^ LimbBits
FracBits == Limbs * LimbBits

ZeroFrac == [l \in 1..Limbs |-> 0]
DblOfInt(n) == [i |-> n, f |-> ZeroFrac]

\* number of bits of n, 0 <= n < 2^30
BitLen(n) == CHOOSE k \in 0..30 : n < 2 ^ k /\ (k = 0 \/ n >= 2 ^ (k - 1))

\* binary place j (1 = halves) of the fraction f
Bit(f, j) ==
    (f[((j - 1) \div LimbBits) + 1] \div (2 ^ (LimbBits - 1 - ((j - 1) % LimbBits)))) % 2

\* place of the first 1 in f, or 0
FirstOne(f) ==
    IF f = ZeroFrac THEN 0
    ELSE LET l == CHOOSE l \in 1..Limbs : f[l] # 0 /\ \A m \in 1..(l - 1) : f[m] = 0
         IN  LimbBits * (l - 1) + (LimbBits - BitLen(f[l]) + 1)

\* f with the places after keep cleared
CutFrac(f, keep) ==
    [l \in 1..Limbs |->
        IF LimbBits * l <= keep THEN f[l]
        ELSE IF LimbBits * (l - 1) >= keep THEN 0
        ELSE LET s == 2 ^ (LimbBits * l - keep) IN (f[l] \div s) * s]

\* f + c at limb l0: <<carry into the integer part, fraction>>
AddAtLimb(f, l0, c) ==
    LET into[l \in 0..Limbs] ==
            IF l > l0 THEN 0
            ELSE IF l = l0 THEN c
            ELSE (f[l + 1] + into[l + 1]) \div LimbBase
    IN  <<into[0], [l \in 1..Limbs |-> (f[l] + into[l]) % LimbBase]>>

\* round-to-nearest-even to 53 significant bits; sticky: the exact value
\* has non-zero bits below f
RoundDbl(i, f, sticky) ==
    LET lead == FirstOne(f)
        keep == IF i > 0 THEN Mantissa - BitLen(i) ELSE lead + Mantissa - 1
    IN  IF (i = 0 /\ lead = 0) \/ keep >= FracBits
        THEN [i |-> i, f |-> f]
        ELSE LET guard == Bit(f, keep + 1)
                 rest  == sticky \/ \E j \in (keep + 2)..FracBits : Bit(f, j) = 1
                 odd   == Bit(f, keep) = 1
                 cut   == CutFrac(f, keep)
                 l0    == ((keep - 1) \div LimbBits) + 1
                 up    == AddAtLimb(cut, l0, 2 ^ (LimbBits * l0 - keep))
             IN  IF guard = 1 /\ (rest \/ odd)
                 THEN [i |-> i + up[1], f |-> up[2]]
                 ELSE [i |-> i, f |-> cut]

\* a / b for integers a >= 0, b > 0: long division, then rounding
DblDiv(a, b) ==
    LET rem[n \in 0..Limbs] ==
            IF n = 0 THEN a % b ELSE (rem[n - 1] * LimbBase) % b
    IN  RoundDbl(a \div b,
                 [l \in 1..Limbs |-> (rem[l - 1] * LimbBase) \div b],
                 rem[Limbs] # 0)

\* the exact product x * k, integer k >= 0
DblMulExact(x, k) ==
    LET carry[l \in 1..(Limbs + 1)] ==
            IF l = Limbs + 1 THEN 0 ELSE (x.f[l] * k + carry[l + 1]) \div LimbBase
    IN  [i |-> x.i * k + carry[1],
         f |-> [l \in 1..Limbs |-> (x.f[l] * k + carry[l + 1]) % LimbBase]]

\* x * k as the double the multiplication returns
DblMul(x, k) ==
    LET e == DblMulExact(x, k)
    IN  RoundDbl(e.i, e.f, FALSE)

FracLt(f, g) ==
    \E l \in 1..Limbs : f[l] < g[l] /\ \A m \in 1..(l - 1) : f[m] = g[m]

DblLt(x, y) == x.i < y.i \/ (x.i = y.i /\ FracLt(x.f, y.f))
DblLe(x, y) == ~DblLt(y, x)
DblMin(x, y) == IF DblLt(y, x) THEN y ELSE x
DblIsInt(x) == x.f = ZeroFrac
DblAddInt(x, n) == [i |-> x.i + n, f |-> x.f]

(***************************************************************************)
(* validateDimensions, on integers (parseInt(value) || 0 yields integers). *)
(***************************************************************************)
validateDimensions_P4(width, height) ==
    IF width <= 0 \/ height <= 0 THEN "Width and height must be positive numbers."
    ELSE IF width > MAX_DIMENSIONS \/ height > MAX_DIMENSIONS
         THEN "Width and height must be less than 8000px."
    ELSE NoError

(***************************************************************************)
(* Dimension resolution.  Each operator returns <<width, height>>.         *)
(***************************************************************************)

\* compressImage of part_004 with the linkedin branch lost
compressImageDims_NoExact(w, h, preset, customDimensions, halfUp) ==
    LET maxWidth  == IF preset = "custom" /\ customDimensions # <<>>
                     THEN customDimensions[1] ELSE PRESETS_P4[preset].maxWidth
        maxHeight == IF preset = "custom" /\ customDimensions # <<>>
                     THEN customDimensions[2] ELSE PRESETS_P4[preset].maxHeight
        w1 == IF w > maxWidth THEN maxWidth ELSE w
        h1 == IF w > maxWidth THEN MathRound(maxWidth * h, w, halfUp) ELSE h
        w2 == IF h1 > maxHeight THEN MathRound(maxHeight * w, h, halfUp) ELSE w1
        h2 == IF h1 > maxHeight THEN maxHeight ELSE h1
    IN  <<w2, h2>>

\* compressImage of part_004 with the width clamp leaving the height as it
\* was
compressImageDims_NoRescale(w, h, preset, customDimensions, halfUp) ==
    IF preset = "linkedin"
    THEN <<PRESETS_P4.linkedin.maxWidth, PRESETS_P4.linkedin.maxHeight>>
    ELSE LET maxWidth  == IF preset = "custom" /\ customDimensions # <<>>
                          THEN customDimensions[1] ELSE PRESETS_P4[preset].maxWidth
             maxHeight == IF preset = "custom" /\ customDimensions # <<>>
                          THEN customDimensions[2] ELSE PRESETS_P4[preset].maxHeight
             w1 == IF w > maxWidth THEN maxWidth ELSE w
             h1 == h
             w2 == IF h1 > maxHeight THEN MathRound(maxHeight * w, h, halfUp) ELSE w1
             h2 == IF h1 > maxHeight THEN maxHeight ELSE h1
         IN  <<w2, h2>>

\* part_004 compressImage, lines 178-210.  customDimensions is <<>> (undefined)
\* or <<width, height>>; the result's components are integers.
compressImageDims_P4(w, h, preset, customDimensions, halfUp) ==
    IF preset = "linkedin"
    THEN <<PRESETS_P4.linkedin.maxWidth, PRESETS_P4.linkedin.maxHeight>>
    ELSE LET maxWidth  == IF preset = "custom" /\ customDimensions # <<>>
                          THEN customDimensions[1] ELSE PRESETS_P4[preset].maxWidth
             maxHeight == IF preset = "custom" /\ customDimensions # <<>>
                          THEN customDimensions[2] ELSE PRESETS_P4[preset].maxHeight
             \* if (width > maxWidth) { width = maxWidth; height = round(width / aspectRatio) }
             w1 == IF w > maxWidth THEN maxWidth ELSE w
             h1 == IF w > maxWidth THEN MathRound(maxWidth * h, w, halfUp) ELSE h
             \* if (height > maxHeight) { height = maxHeight; width = round(height * aspectRatio) }
             w2 == IF h1 > maxHeight THEN MathRound(maxHeight * w, h, halfUp) ELSE w1
             h2 == IF h1 > maxHeight THEN maxHeight ELSE h1
         IN  <<w2, h2>>

\* App.tsx compressImage, lines 130-148: the same two clamps without
\* Math.round; the components are rationals.
compressImageDims_App(w, h, preset) ==
    IF preset = "linkedin"
    THEN <<IntRat(PRESETS_App.linkedin.maxWidth), IntRat(PRESETS_App.linkedin.maxHeight)>>
    ELSE LET maxWidth  == PRESETS_App[preset].maxWidth
             maxHeight == PRESETS_App[preset].maxHeight
             w1 == IF w > maxWidth THEN IntRat(maxWidth) ELSE IntRat(w)
             h1 == IF w > maxWidth THEN RatOf(maxWidth, h, w) ELSE IntRat(h)
             clampH == RatLt(IntRat(maxHeight), h1)
             w2 == IF clampH THEN RatOf(maxHeight, w, h) ELSE w1
             h2 == IF clampH THEN IntRat(maxHeight) ELSE h1
         IN  <<w2, h2>>

\* resizeImage of part_001 without the ratio < 1 guard: scales up as well
resizeImage_AlwaysScale(w, h, maxWidth, maxHeight, exactResize) ==
    IF exactResize
    THEN <<DblOfInt(maxWidth), DblOfInt(maxHeight)>>
    ELSE LET ratio == DblMin(DblDiv(maxWidth, w), DblDiv(maxHeight, h))
         IN  <<DblMul(ratio, w), DblMul(ratio, h)>>

\* part_001 resizeImage, lines 2062-2081: ratio = Math.min(maxWidth / width,
\* maxHeight / height); width *= ratio, height *= ratio only if ratio < 1.
\* Returns the doubles <<width, height>> that are reported.
resizeImage_P1(w, h, maxWidth, maxHeight, exactResize) ==
    IF exactResize
    THEN <<DblOfInt(maxWidth), DblOfInt(maxHeight)>>
    ELSE LET ratio == DblMin(DblDiv(maxWidth, w), DblDiv(maxHeight, h))
         IN  IF DblLt(ratio, DblOfInt(1))
             THEN <<DblMul(ratio, w), DblMul(ratio, h)>>
             ELSE <<DblOfInt(w), DblOfInt(h)>>

\* canvas.width = width (part_001:2075-2076): an unsigned long attribute
\* takes the integer part
canvasSize_P1(dims) == <<dims[1].i, dims[2].i>>

\* part_001 getPresetSettings, lines 2039-2052 (customWidth, customHeight are
\* the component state the closure sees)
getPresetSettings_P1(preset, cw, ch) ==
    CASE preset = "etsy"     -> [maxWidth |-> 2000, maxHeight |-> 2000, targetSize |-> KB500, exactResize |-> FALSE]
      [] preset = "shopee"   -> [maxWidth |-> 3000, maxHeight |-> 3000, targetSize |-> MB2, exactResize |-> FALSE]
      [] preset = "linkedin" -> [maxWidth |-> 1584, maxHeight |-> 396, targetSize |-> MB2, exactResize |-> TRUE]
      [] preset = "custom"   -> [maxWidth |-> cw, maxHeight |-> ch, targetSize |-> Infinity, exactResize |-> FALSE]
      [] OTHER               -> [maxWidth |-> 2000, maxHeight |-> 2000, targetSize |-> KB500, exactResize |-> FALSE]

(***************************************************************************)
(* Dimension-resolution harness: a source size and a preset (or custom     *)
(* bounds) are drawn, and one of the three resolvers is applied.           *)
(***************************************************************************)
MaxSrcDim == 12
MaxCustomDim == 6

\* sizes around the presets' bounds and the upload limit, and a 4K frame
LargeDims == {396, 600, 800, 1584, 2000, 2001, 2160, 3000, 3001, 3840, 4000, 8000}
SrcDims == (1..MaxSrcDim) \cup LargeDims
CustomDims == 1..MaxCustomDim

DimInputs ==
    [w : SrcDims, h : SrcDims, preset : {"etsy", "shopee", "linkedin"}, custom : {<<>>}]
    \cup [w : SrcDims, h : SrcDims, preset : {"custom"}, custom : CustomDims \X CustomDims]

DimIdle == [stage |-> "idle"]
EncIdle == [pc |-> "idle"]

AppIdle ==
    /\ originalImage = Null
    /\ compressedImage = Null
    /\ selectedPreset = "etsy"
    /\ quality = DefaultQuality
    /\ isProcessing = FALSE
    /\ error = NoError
    /\ customWidth = DefaultCustomWidth
    /\ customHeight = DefaultCustomHeight
    /\ dimensionError = NoError
    /\ recompressionTimeout = Null
    /\ timers = {}
    /\ tasks = {}
    /\ nextSeq = 0
    /\ encodeLog = Null
    /\ typed = Null
    /\ memoized = <<DefaultCustomWidth, DefaultCustomHeight>>
    /\ cancelled = {}

InitDims ==
    /\ dim \in {[stage |-> "input", in |-> i] : i \in DimInputs}
    /\ enc = EncIdle
    /\ AppIdle

\* the bounds (W, H) a request resolves against
BoundsOf(in) ==
    IF in.preset = "custom" /\ in.custom # <<>>
    THEN in.custom
    ELSE <<PRESETS_P4[in.preset].maxWidth, PRESETS_P4[in.preset].maxHeight>>

Resolve_P4 ==
    /\ dim.stage = "input"
    /\ \E halfUp \in BOOLEAN :
         LET r == compressImageDims_P4(dim.in.w, dim.in.h, dim.in.preset, dim.in.custom, halfUp)
         IN  dim' = [stage |-> "done", in |-> dim.in, by |-> "P4",
                     out |-> <<DblOfInt(r[1]), DblOfInt(r[2])>>]
    /\ UNCHANGED <<enc, appVars>>

\* processImage, part_001:2120-2122: the bounds resizeImage is called with
settings_P1(preset, customW, customH, cw, ch) ==
    IF preset = "custom" /\ customW # 0 /\ customH # 0
    THEN [maxWidth |-> customW, maxHeight |-> customH,
          targetSize |-> Infinity, exactResize |-> FALSE]
    ELSE getPresetSettings_P1(preset, cw, ch)

Resolve_P1 ==
    /\ dim.stage = "input"
    /\ LET in == dim.in
           settings == IF in.custom # <<>>
                       THEN settings_P1(in.preset, in.custom[1], in.custom[2],
                                        DefaultCustomWidth, DefaultCustomHeight)
                       ELSE settings_P1(in.preset, 0, 0,
                                        DefaultCustomWidth, DefaultCustomHeight)
       IN  dim' = [stage |-> "done", in |-> in, by |-> "P1",
                   out |-> resizeImage_P1(in.w, in.h, settings.maxWidth,
                                          settings.maxHeight, settings.exactResize)]
    /\ UNCHANGED <<enc, appVars>>

Resolve_App ==
    /\ dim.stage = "input"
    /\ dim.in.preset # "custom"
    /\ dim' = [stage |-> "done", in |-> dim.in, by |-> "App",
               out |-> compressImageDims_App(dim.in.w, dim.in.h, dim.in.preset)]
    /\ UNCHANGED <<enc, appVars>>

NextDims == Resolve_P4 \/ Resolve_P1 \/ Resolve_App

SpecDims == InitDims /\ [][NextDims]_vars

DimDone == dim.stage = "done"
\* a resolution by compressImage of part_004 or resizeImage of part_001
\* under an aspect-preserving preset or custom bounds
FitWithin == DimDone /\ dim.by \in {"P4", "P1"} /\ dim.in.preset # "linkedin"
OutW == dim.out[1]
OutH == dim.out[2]
BoundW == BoundsOf(dim.in)[1]
BoundH == BoundsOf(dim.in)[2]

\* C3: for an aspect-preserving preset or custom bounds (W, H) the resolved
\* output satisfies width <= W and height <= H.
C3_WithinBounds ==
    FitWithin => (DblLe(OutW, DblOfInt(BoundW)) /\ DblLe(OutH, DblOfInt(BoundH)))

\* C3 for the rounding resolver of part_004 alone: width <= W and
\* height <= H.
C3_WithinBounds_P4 ==
    (FitWithin /\ dim.by = "P4")
        => (DblLe(OutW, DblOfInt(BoundW)) /\ DblLe(OutH, DblOfInt(BoundH)))

\* a source larger than the bounds on both axes was resolved (4000x3000 in 2000x2000)
C3_Witness ==
    /\ FitWithin
    /\ dim.by = "P4"
    /\ dim.in.w = 4000 /\ dim.in.h = 3000 /\ dim.in.preset = "etsy"
    /\ dim.out = <<DblOfInt(2000), DblOfInt(1500)>>

\* C4: a source that already fits the bounds is returned unchanged (no
\* upscaling).
C4_NoUpscale ==
    (FitWithin /\ dim.in.w <= BoundW /\ dim.in.h <= BoundH)
        => dim.out = <<DblOfInt(dim.in.w), DblOfInt(dim.in.h)>>

C4_Witness ==
    /\ FitWithin
    /\ dim.by = "P1"
    /\ dim.in.w = 800 /\ dim.in.h = 600 /\ dim.in.preset = "etsy"
    /\ dim.out = <<DblOfInt(800), DblOfInt(600)>>

\* C5: the exact-resize preset (linkedin) resolves to exactly 1584 x 396 for
\* every source, smaller sources included.
C5_ExactResize ==
    (DimDone /\ dim.by \in {"P4", "P1"} /\ dim.in.preset = "linkedin")
        => dim.out = <<DblOfInt(1584), DblOfInt(396)>>

C5_Witness ==
    /\ DimDone
    /\ dim.by = "P1"
    /\ dim.in.preset = "linkedin"
    /\ dim.in.w = 1 /\ dim.in.h = 8000
    /\ dim.out = <<DblOfInt(1584), DblOfInt(396)>>

\* C6: the resolved width and height are integers >= 1 for every accepted
\* source and every preset or valid custom bounds.
C6_PositiveIntegers ==
    DimDone =>
        IF dim.by = "App"
        THEN /\ RatIsInt(OutW) /\ RatIsInt(OutH)
             /\ RatLe(IntRat(1), OutW) /\ RatLe(IntRat(1), OutH)
        ELSE /\ DblIsInt(OutW) /\ DblIsInt(OutH)
             /\ OutW.i >= 1 /\ OutH.i >= 1

\* C7: the output keeps the source aspect ratio to within one pixel:
\* |width * h - height * w| < max(w, h).
C7_AspectWithinOnePixel ==
    FitWithin =>
        LET x == DblMulExact(OutW, dim.in.h)
            y == DblMulExact(OutH, dim.in.w)
            m == IF dim.in.w >= dim.in.h THEN dim.in.w ELSE dim.in.h
        IN  DblLt(x, DblAddInt(y, m)) /\ DblLt(y, DblAddInt(x, m))

\* a resolution where the rounding is inexact (7x3 into 2x6: 2 x round(6/7))
C7_Witness ==
    /\ FitWithin
    /\ dim.by = "P4"
    /\ OutW.i * dim.in.h # OutH.i * dim.in.w


(***************************************************************************)
(* The budgeted encode of part_001: compressToTargetSize, lines 2084-2107. *)
(* The encoder is the environment: each canvas.toBlob yields a blob of     *)
(* some size, or null.  enc.tried records every blob the loop obtained.    *)
(***************************************************************************)

\* blob sizes at and just over each budget
BlobSizes == {KB500, KB500 + 1, MB2, MB2 + 1}
\* what the quality slider can hand over (CompressionControls.tsx:263-270)
QualityHints == SliderMin .. SliderMax

InitEnc ==
    /\ dim = DimIdle
    /\ enc \in {[pc |-> "toBlob", targetSize |-> t, initialQuality |-> q,
                 currentQuality |-> q, blob |-> Null, tried |-> {}] :
                    t \in {KB500, MB2}, q \in QualityHints}
    /\ AppIdle

\* a loop body that forgets `currentQuality -= 5` (mutant of loopBody)
loopBody_NoDecrement(e, blob) ==
    IF blob.size <= e.targetSize \/ e.currentQuality <= QualityFloor
    THEN [e EXCEPT !.pc = "done", !.blob = blob, !.tried = @ \cup {blob}]
    ELSE [e EXCEPT !.blob = blob, !.tried = @ \cup {blob}]

\* one pass of the do-while body after toBlob called back with `blob`
loopBody(e, blob) ==
    IF blob.size <= e.targetSize \/ e.currentQuality <= QualityFloor
    THEN [e EXCEPT !.pc = "done", !.blob = blob, !.tried = @ \cup {blob}]
    ELSE [e EXCEPT !.pc = IF e.currentQuality - QualityStep > QualityFloor
                          THEN "toBlob" ELSE "done",
                   !.currentQuality = @ - QualityStep,
                   !.blob = blob, !.tried = @ \cup {blob}]

\* canvas.toBlob calls back with a blob
ToBlobOk ==
    /\ enc.pc = "toBlob"
    /\ \E size \in BlobSizes :
         enc' = loopBody(enc, [quality |-> enc.currentQuality, size |-> size])
    /\ UNCHANGED <<dim, appVars>>

\* canvas.toBlob calls back with null: resolve(result!) hands null on and
\* blob.size throws a TypeError out of compressToTargetSize
ToBlobNull ==
    /\ enc.pc = "toBlob"
    /\ enc' = [enc EXCEPT !.pc = "threw", !.blob = Null]
    /\ UNCHANGED <<dim, appVars>>

NextEnc == ToBlobOk \/ ToBlobNull

SpecEnc == InitEnc /\ [][NextEnc]_vars

\* canvas.toBlob always calls its callback, so a pending encode settles
SpecEnc_Live == SpecEnc /\ WF_vars(NextEnc)

\* compressToTargetSize returned { blob, finalQuality: currentQuality }
EncReturned == enc.pc = "done"
finalQuality == enc.currentQuality
\* the qualities the descent from the hint passes through above q
DescentAbove(q) ==
    {enc.initialQuality - k * QualityStep : k \in 0 .. 20} \cap ((q + 1) .. 100)
TriedFitting == {b \in enc.tried : b.size <= enc.targetSize}

\* C8: the quality returned by the budgeted encode is the highest value of
\* the descent hint, hint - 5, ... whose blob meets the budget (every higher
\* value of the descent was tried and exceeded it), or the floor 50 when no
\* tried value meets it.
C8_HighestQualityMeetingBudget ==
    EncReturned =>
        /\ \A q \in DescentAbove(finalQuality) :
              \E b \in enc.tried : b.quality = q /\ b.size > enc.targetSize
        /\ IF TriedFitting # {}
           THEN \E b \in TriedFitting : b.quality = finalQuality
           ELSE finalQuality = QualityFloor

\* the spec's scenario: from 80 with 500 KB, 80 and 75 exceed, 70 fits
C8_Witness ==
    /\ EncReturned
    /\ enc.initialQuality = 80 /\ enc.targetSize = KB500
    /\ {b.quality : b \in enc.tried} = {80, 75, 70}
    /\ enc.blob = [quality |-> 70, size |-> KB500]
    /\ finalQuality = 70


(***************************************************************************)
(* The files a user can hand to the uploader, and what the browser makes   *)
(* of them: name, MIME type, byte size, decoded width and height, and      *)
(* whether the image decodes at all (img.onload against img.onerror).      *)
(***************************************************************************)

File(name, type, size, width, height, decodes) ==
    [name |-> name, type |-> type, size |-> size,
     width |-> width, height |-> height, decodes |-> decodes]

Photo     == File("photo.jpg", "image/jpeg", 3 * MB1, 4000, 3000, TRUE)
Icon      == File("icon.png", "image/png", KB500, 800, 600, TRUE)
Strip     == File("strip.jpg", "image/jpeg", MB1, 8000, 1, TRUE)
Animation == File("anim.gif", "image/gif", MB1, 800, 600, TRUE)
Oversized == File("big.jpg", "image/jpeg", MAX_FILE_SIZE + 1, 4000, 3000, TRUE)
Panorama  == File("pano.jpg", "image/jpeg", MB2, MAX_DIMENSIONS + 1, 600, TRUE)
Corrupt   == File("bad.jpg", "image/jpeg", MB1, 0, 0, FALSE)
\* exactly at both limits
AtLimit   == File("limit.png", "image/png", MAX_FILE_SIZE, MAX_DIMENSIONS, MAX_DIMENSIONS, TRUE)

Files == {Photo, Icon, Strip, Animation, Oversized, Panorama, Corrupt}

\* bound on the compression requests issued in one behaviour
MaxRequests == 3

\* sizes the encoder may produce: at the smallest budget and just over it
EncodedSizes == {KB500, KB500 + 1}

(***************************************************************************)
(* src/src/App.tsx.  Every handler is async and compresses inline; no      *)
(* control is disabled while a compression runs.  A task is a handler      *)
(* suspended at an await, with the values its closure captured.            *)
(***************************************************************************)

Qualities_App == {SliderMin, DefaultQuality, SliderMax_App}

InitA ==
    /\ dim = DimIdle
    /\ enc = EncIdle
    /\ AppIdle

\* App.tsx:103-111
validateFile_App(file) ==
    IF file.type \notin {"image/jpeg", "image/jpg", "image/png"}
    THEN "Please upload only JPG or PNG images."
    ELSE IF file.size > MAX_FILE_SIZE
         THEN "File size must be less than 10 MB."
         ELSE NoError

\* App.tsx:137-179: the ImageData kept for a loaded file
ImageData(file) ==
    [file |-> file, width |-> file.width, height |-> file.height, size |-> file.size]

Task(seq, kind, pc, file, preset, q) ==
    [seq |-> seq, kind |-> kind, pc |-> pc, file |-> file,
     preset |-> preset, quality |-> q]

\* App.tsx:179-188 and 190: handleFile up to its first await
handleFile_App(file) ==
    /\ originalImage = Null
    /\ compressedImage' = Null
    /\ IF validateFile_App(file) # NoError
       THEN /\ error' = validateFile_App(file)
            /\ UNCHANGED <<tasks, nextSeq>>
       ELSE /\ nextSeq < MaxRequests
            /\ error' = NoError
            /\ tasks' = tasks \cup
                 {Task(nextSeq, "file", "load", file, selectedPreset, quality)}
            /\ nextSeq' = nextSeq + 1
    /\ UNCHANGED <<dim, enc, originalImage, selectedPreset, quality, isProcessing,
                   customWidth, customHeight, dimensionError,
                   recompressionTimeout, timers, encodeLog, typed, memoized, cancelled>>

\* App.tsx:266-272: handlePresetChange up to its first await
handlePresetChange_App(preset) ==
    /\ originalImage # Null
    /\ nextSeq < MaxRequests
    /\ selectedPreset' = preset
    /\ isProcessing' = TRUE
    /\ tasks' = tasks \cup
         {Task(nextSeq, "preset", "load", originalImage.file, preset, quality)}
    /\ nextSeq' = nextSeq + 1
    /\ UNCHANGED <<dim, enc, originalImage, compressedImage, quality, error,
                   customWidth, customHeight, dimensionError,
                   recompressionTimeout, timers, encodeLog, typed, memoized, cancelled>>

\* App.tsx:285-291: handleQualityChange up to its first await
handleQualityChange_App(newQuality) ==
    /\ originalImage # Null
    /\ nextSeq < MaxRequests
    /\ newQuality # quality
    /\ quality' = newQuality
    /\ isProcessing' = TRUE
    /\ tasks' = tasks \cup
         {Task(nextSeq, "quality", "load", originalImage.file, selectedPreset, newQuality)}
    /\ nextSeq' = nextSeq + 1
    /\ UNCHANGED <<dim, enc, originalImage, compressedImage, selectedPreset, error,
                   customWidth, customHeight, dimensionError,
                   recompressionTimeout, timers, encodeLog, typed, memoized, cancelled>>

\* App.tsx:326-334
resetApp_App ==
    /\ originalImage # Null
    /\ originalImage' = Null
    /\ compressedImage' = Null
    /\ error' = NoError
    /\ UNCHANGED <<dim, enc, selectedPreset, quality, isProcessing,
                   customWidth, customHeight, dimensionError,
                   recompressionTimeout, timers, tasks, nextSeq, encodeLog, typed, memoized, cancelled>>

\* loadImage settles (App.tsx:113-120) and the handler runs on to the
\* toBlob call of compressImage, or into its catch block
loadImageSettles_App(t) ==
    /\ t \in tasks /\ t.pc = "load"
    /\ IF ~t.file.decodes
       THEN /\ error' = IF t.kind = "file"
                        THEN "Failed to process image. Please try again."
                        ELSE "Failed to reprocess image."
            /\ isProcessing' = FALSE
            /\ tasks' = tasks \ {t}
            /\ UNCHANGED originalImage
       ELSE IF t.kind = "file" /\ (t.file.width > MAX_DIMENSIONS
                                   \/ t.file.height > MAX_DIMENSIONS)
       THEN /\ error' = "Image dimensions must be less than 8000x8000 pixels."
            /\ tasks' = tasks \ {t}
            /\ UNCHANGED <<originalImage, isProcessing>>
       ELSE /\ originalImage' = IF t.kind = "file" THEN ImageData(t.file)
                                ELSE originalImage
            /\ isProcessing' = TRUE
            /\ tasks' = (tasks \ {t}) \cup {[t EXCEPT !.pc = "toBlob"]}
            /\ UNCHANGED error
    /\ UNCHANGED <<dim, enc, compressedImage, selectedPreset, quality,
                   customWidth, customHeight, dimensionError,
                   recompressionTimeout, timers, nextSeq, encodeLog, typed, memoized, cancelled>>

\* an axis below 1 makes a canvas without pixels (canvas.width = width
\* keeps the integer part): toBlob then calls back with null
canvasEmpty_App(dims) == RatLt(dims[1], IntRat(1)) \/ RatLt(dims[2], IntRat(1))

\* the toBlob callback of compressImage (App.tsx:159-176) and the rest of
\* the handler; with a null blob the promise is never settled
toBlobCallback_App(t) ==
    /\ t \in tasks /\ t.pc = "toBlob"
    /\ LET dims == compressImageDims_App(t.file.width, t.file.height, t.preset)
       IN  IF canvasEmpty_App(dims)
           THEN /\ tasks' = (tasks \ {t}) \cup {[t EXCEPT !.pc = "never"]}
                /\ UNCHANGED <<compressedImage, isProcessing>>
           ELSE /\ \E size \in EncodedSizes :
                     compressedImage' =
                        [blob |-> [type |-> "image/jpeg", quality |-> t.quality, size |-> size],
                         width |-> dims[1], height |-> dims[2], size |-> size,
                         from |-> [seq |-> t.seq, image |-> t.file.name,
                                   preset |-> t.preset, quality |-> t.quality,
                                   custom |-> <<>>]]
                /\ isProcessing' = FALSE
                /\ tasks' = tasks \ {t}
    /\ UNCHANGED <<dim, enc, originalImage, selectedPreset, quality, error,
                   customWidth, customHeight, dimensionError,
                   recompressionTimeout, timers, nextSeq, encodeLog, typed, memoized, cancelled>>

NextA ==
    \/ \E file \in Files : handleFile_App(file)
    \/ \E preset \in Presets : handlePresetChange_App(preset)
    \/ \E newQuality \in Qualities_App : handleQualityChange_App(newQuality)
    \/ resetApp_App
    \/ \E t \in tasks : loadImageSettles_App(t)
    \/ \E t \in tasks : toBlobCallback_App(t)

SpecA == InitA /\ [][NextA]_vars

\* C1: a request that completes late never overwrites the result of a
\* later-issued request for the same source image: every step that replaces
\* one result by another of the same image moves to a later-issued request.
C1_LateNeverOverwrites ==
    [][(compressedImage # Null /\ compressedImage' # Null
          /\ compressedImage'.from.image = compressedImage.from.image)
        => compressedImage'.from.seq >= compressedImage.from.seq]_vars

\* two requests for one image were issued and the later one has published
\* its result while the earlier one is still in flight
C1_Witness ==
    /\ compressedImage # Null
    /\ \E t \in tasks : /\ t.seq < compressedImage.from.seq
                        /\ t.file.name = compressedImage.from.image
                        /\ t.kind # "file"


(***************************************************************************)
(* src/unnamed/part_004.  The controls are disabled while isProcessing     *)
(* (CompressionControls.tsx:54, 133, 162, 270); the uploader is rendered   *)
(* only without an image and the reset button only with one (687-731).     *)
(* A handler, a timer callback and an async continuation read the state    *)
(* of the render that created them: a task and a timer carry the values    *)
(* their closure captured.  The render after a handler and the effect of   *)
(* lines 506-521 that follows it are part of the handler's action.         *)
(***************************************************************************)

\* bound on the requests and timers started in one behaviour
MaxStarted == 4

Qualities_P4 == {SliderMin, DefaultQuality}
\* A text is the sequence of its characters.  parseInt (part_004:405,
\* part_001:1975) reads an optional sign and the longest prefix of decimal
\* digits; without a digit the result is NaN.
Digits == <<"0", "1", "2", "3", "4", "5", "6", "7", "8", "9">>
IsDigit(c) == \E i \in 1 .. Len(Digits) : Digits[i] = c
DigitValue(c) == (CHOOSE i \in 1 .. Len(Digits) : Digits[i] = c) - 1
NaN == [isNaN |-> TRUE, n |-> 0]
parseInt(value) ==
    LET signed == Len(value) > 0 /\ value[1] \in {"-", "+"}
        body   == IF signed THEN Tail(value) ELSE value
        k      == CHOOSE j \in 0 .. Len(body) :
                     /\ \A i \in 1 .. j : IsDigit(body[i])
                     /\ j < Len(body) => ~IsDigit(body[j + 1])
        num[i \in 0 .. k] ==
            IF i = 0 THEN 0 ELSE 10 * num[i - 1] + DigitValue(body[i])
    IN  IF k = 0 THEN NaN
        ELSE [isNaN |-> FALSE,
              n |-> IF signed /\ value[1] = "-" THEN 0 - num[k] ELSE num[k]]
\* parseInt(value) || 0: NaN and 0 are falsy
OrZero(r) == IF r.isNaN \/ r.n = 0 THEN 0 ELSE r.n

\* the texts typed into a custom dimension input: "", "12.5", "1000", "9000"
TypedTexts ==
    {<<>>, <<"1", "2", ".", "5">>, <<"1", "0", "0", "0">>, <<"9", "0", "0", "0">>}
\* the files dropped on the uploader of part_004
Files_P4 == {Photo, Strip, Animation, Panorama, Corrupt}

InitC ==
    /\ dim = DimIdle
    /\ enc = EncIdle
    /\ AppIdle

\* the state a closure reads: selectedPreset, quality, customWidth, customHeight
Closure(preset, q, cw, ch) ==
    [preset |-> preset, quality |-> q, customWidth |-> cw, customHeight |-> ch]

\* the custom preset is selected with bounds validateDimensions rejects
InvalidCustom(preset, cw, ch) ==
    preset = "custom" /\ validateDimensions_P4(cw, ch) # NoError

\* a request: the handler suspended at an await.  stale tells whether the
\* state was InvalidCustom when the request was started.
Task_P4(seq, kind, file, c, invalidNow) ==
    [seq |-> seq, kind |-> kind, pc |-> "load", file |-> file,
     preset |-> c.preset, quality |-> c.quality,
     customWidth |-> c.customWidth, customHeight |-> c.customHeight,
     invalidAtStart |-> invalidNow]

\* a clearTimeout that cancels nothing
clearTimeout_Nothing(id) == timers


\* clearTimeout(recompressionTimeout)
clearTimeout(id) == {tm \in timers : id = Null \/ tm.id # id.id}

\* part_004:151-159
\* validateFile without its size check
validateFile_NoSizeLimit(file) ==
    IF file.type \notin {"image/jpeg", "image/jpg", "image/png"}
    THEN "Please upload only JPG or PNG images. Other formats are not supported."
    ELSE NoError

validateFile_P4(file) ==
    IF file.type \notin {"image/jpeg", "image/jpg", "image/png"}
    THEN "Please upload only JPG or PNG images. Other formats are not supported."
    ELSE IF file.size > MAX_FILE_SIZE
         THEN "File size must be less than 10MB."
         ELSE NoError

\* part_004:269-290: handleFile up to its first await
handleFile_P4(file) ==
    /\ originalImage = Null
    /\ compressedImage' = Null
    /\ dimensionError' = NoError
    /\ IF validateFile_P4(file) # NoError
       THEN /\ error' = validateFile_P4(file)
            /\ UNCHANGED <<tasks, nextSeq>>
       ELSE /\ nextSeq < MaxStarted
            /\ error' = NoError
            /\ tasks' = tasks \cup
                 {Task_P4(nextSeq, "file", file,
                          Closure(selectedPreset, quality, customWidth, customHeight),
                          InvalidCustom(selectedPreset, customWidth, customHeight))}
            /\ nextSeq' = nextSeq + 1
    /\ UNCHANGED <<dim, enc, originalImage, selectedPreset, quality, isProcessing,
                   customWidth, customHeight, recompressionTimeout, timers, encodeLog>>
    /\ typed' = Null
    /\ UNCHANGED memoized
    /\ cancelled' = {}

\* part_004:239-246: recompressImage up to its await, called from a closure
\* that read c, for a request of the given kind; seq is the next free id
recompressImage_P4(kind, file, c, seq) ==
    /\ seq < MaxStarted
    /\ isProcessing' = TRUE
    /\ error' = NoError
    /\ dimensionError' = NoError
    /\ tasks' = tasks \cup
         {Task_P4(seq, kind, file, c,
                  InvalidCustom(selectedPreset', customWidth', customHeight'))}
    /\ nextSeq' = seq + 1

\* part_004:506-521: the effect on [selectedPreset, customWidth, customHeight],
\* run after the render that follows a handler which set them.  The handler
\* left error and dimensionError as given and did not touch isProcessing.
\* the settings effect calling a recompressImage that still sees the
\* settings of the render before the change
effect_StaleSettings(errorSet, dimensionErrorSet, seq) ==
    IF <<selectedPreset', customWidth', customHeight'>>
            = <<selectedPreset, customWidth, customHeight>>
       \/ originalImage' = Null \/ isProcessing
    THEN /\ error' = errorSet
         /\ dimensionError' = dimensionErrorSet
         /\ nextSeq' = seq
         /\ UNCHANGED <<isProcessing, tasks>>
    ELSE recompressImage_P4("effect", originalImage'.file,
                            Closure(selectedPreset, quality, customWidth, customHeight),
                            seq)

effect_P4(errorSet, dimensionErrorSet, seq) ==
    IF <<selectedPreset', customWidth', customHeight'>>
            = <<selectedPreset, customWidth, customHeight>>
       \/ originalImage' = Null \/ isProcessing
    THEN /\ error' = errorSet
         /\ dimensionError' = dimensionErrorSet
         /\ nextSeq' = seq
         /\ UNCHANGED <<isProcessing, tasks>>
    ELSE IF InvalidCustom(selectedPreset', customWidth', customHeight')
    THEN /\ error' = errorSet
         /\ dimensionError' = validateDimensions_P4(customWidth', customHeight')
         /\ nextSeq' = seq
         /\ UNCHANGED <<isProcessing, tasks>>
    ELSE recompressImage_P4("effect", originalImage'.file,
                            Closure(selectedPreset', quality', customWidth', customHeight'),
                            seq)

\* handlePresetChange without its clearTimeout (part_004:361-364)
handlePresetChange_KeepsTimer(preset) ==
    /\ originalImage # Null /\ ~isProcessing
    /\ UNCHANGED <<timers, recompressionTimeout>>
    /\ selectedPreset' = preset
    /\ customWidth' = IF preset # "custom" THEN PRESETS_P4[preset].maxWidth
                      ELSE DefaultCustomWidth
    /\ customHeight' = IF preset # "custom" THEN PRESETS_P4[preset].maxHeight
                       ELSE DefaultCustomHeight
    /\ UNCHANGED <<dim, enc, originalImage, compressedImage, quality, encodeLog,
                   memoized>>
    /\ typed' = Null
    /\ cancelled' = {}
    /\ effect_P4(NoError, NoError, nextSeq)

\* part_004:359-383, then the effect
handlePresetChange_P4(preset) ==
    /\ originalImage # Null /\ ~isProcessing
    /\ timers' = clearTimeout(recompressionTimeout)
    /\ recompressionTimeout' = Null
    /\ selectedPreset' = preset
    /\ customWidth' = IF preset # "custom" THEN PRESETS_P4[preset].maxWidth
                      ELSE DefaultCustomWidth
    /\ customHeight' = IF preset # "custom" THEN PRESETS_P4[preset].maxHeight
                       ELSE DefaultCustomHeight
    /\ UNCHANGED <<dim, enc, originalImage, compressedImage, quality, encodeLog>>
    /\ typed' = Null
    /\ UNCHANGED memoized
    /\ effect_P4(NoError, NoError, nextSeq)
    /\ cancelled' = timers \ clearTimeout(recompressionTimeout)

\* part_004:385-396: recompressImage is the one of the render the handler
\* belongs to, so it reads the quality from before setQuality
handleQualityChange_P4(newQuality) ==
    /\ originalImage # Null /\ ~isProcessing
    /\ newQuality # quality
    /\ quality' = newQuality
    /\ UNCHANGED <<dim, enc, originalImage, compressedImage, selectedPreset,
                   customWidth, customHeight, recompressionTimeout, timers, encodeLog>>
    /\ typed' = Null
    /\ UNCHANGED memoized
    /\ recompressImage_P4("quality", originalImage.file,
                          Closure(selectedPreset, quality, customWidth, customHeight),
                          nextSeq)
    /\ cancelled' = {}

\* part_004:398-430, then the effect.  value is the text of the input.  The
\* timer's callback calls the recompressImage of the handler's render, which
\* reads the dimensions from before this edit.
handleCustomDimensionChange_P4(dimension, value) ==
  LET numValue == OrZero(parseInt(value)) IN
    /\ originalImage # Null /\ ~isProcessing
    /\ selectedPreset = "custom"
    /\ customWidth' = IF dimension = "width" THEN numValue ELSE customWidth
    /\ customHeight' = IF dimension = "height" THEN numValue ELSE customHeight
    /\ UNCHANGED <<dim, enc, originalImage, compressedImage, selectedPreset,
                   quality, encodeLog>>
    /\ typed' = [dimension |-> dimension, value |-> value]
    /\ UNCHANGED memoized
    /\ IF numValue > 0
       THEN /\ nextSeq < MaxStarted
            /\ timers' = clearTimeout(recompressionTimeout) \cup
                 {[id |-> nextSeq, file |-> originalImage.file,
                   c |-> Closure(selectedPreset, quality, customWidth, customHeight)]}
            /\ recompressionTimeout' = [id |-> nextSeq]
            /\ effect_P4(error, NoError, nextSeq + 1)
       ELSE /\ timers' = clearTimeout(recompressionTimeout)
            /\ recompressionTimeout' = Null
            /\ effect_P4(error, NoError, nextSeq)
    /\ cancelled' = timers \ clearTimeout(recompressionTimeout)

\* the debounce timer of part_004:420-427 fires after 1000 ms, whatever the
\* state is by then
timerFires_P4(tm) ==
    /\ tm \in timers
    /\ timers' = timers \ {tm}
    /\ UNCHANGED <<dim, enc, originalImage, compressedImage, selectedPreset, quality,
                   customWidth, customHeight, recompressionTimeout, encodeLog>>
    /\ typed' = Null
    /\ UNCHANGED memoized
    /\ recompressImage_P4("timer", tm.file, tm.c, nextSeq)
    /\ cancelled' = {}

\* part_004:450-483; the effect finds no image
resetApp_P4 ==
    /\ originalImage # Null
    /\ timers' = clearTimeout(recompressionTimeout)
    /\ recompressionTimeout' = Null
    /\ originalImage' = Null
    /\ compressedImage' = Null
    /\ error' = NoError
    /\ dimensionError' = NoError
    /\ isProcessing' = FALSE
    /\ selectedPreset' = "etsy"
    /\ quality' = DefaultQuality
    /\ customWidth' = DefaultCustomWidth
    /\ customHeight' = DefaultCustomHeight
    /\ UNCHANGED <<dim, enc, tasks, nextSeq, encodeLog>>
    /\ typed' = Null
    /\ UNCHANGED memoized
    /\ cancelled' = timers \ clearTimeout(recompressionTimeout)


\* the customDimensions argument a request passes to compressImage
customDimensions_P4(t) ==
    IF t.preset = "custom" THEN <<t.customWidth, t.customHeight>> ELSE <<>>

\* what ends a request started by the debounce timer (part_004:424-426)
afterRecompress_P4(t) ==
    IF t.kind = "timer" THEN Null ELSE recompressionTimeout

\* the cleanup of the effect on [recompressionTimeout] (part_004:485-492):
\* when the state changes, the cleanup created with the previous value
\* clears that value's timer
cleanup_P4(newTimeout) ==
    IF newTimeout # recompressionTimeout
    THEN clearTimeout(recompressionTimeout) ELSE timers

\* the request goes on from loadImage to the canvas.toBlob call of
\* compressImage (part_004:170-236): the encode attempt is logged
callToBlob_P4(t) ==
    /\ tasks' = (tasks \ {t}) \cup {[t EXCEPT !.pc = "toBlob"]}
    /\ encodeLog' = [seq |-> t.seq, invalidAtStart |-> t.invalidAtStart]

\* loadImage settles for an upload (part_004:290-331)
loadImageSettles_File_P4(t) ==
    /\ t \in tasks /\ t.pc = "load" /\ t.kind = "file"
    /\ IF ~t.file.decodes
       THEN /\ error' = "Failed to process image. Please try again with a different file."
            /\ isProcessing' = FALSE
            /\ tasks' = tasks \ {t}
            /\ UNCHANGED <<originalImage, dimensionError, encodeLog>>
       ELSE IF t.file.width > MAX_DIMENSIONS \/ t.file.height > MAX_DIMENSIONS
       THEN /\ error' = "Image dimensions must be less than 8000x8000 pixels."
            /\ tasks' = tasks \ {t}
            /\ UNCHANGED <<originalImage, isProcessing, dimensionError, encodeLog>>
       ELSE /\ originalImage' = ImageData(t.file)
            /\ UNCHANGED error
            /\ IF InvalidCustom(t.preset, t.customWidth, t.customHeight)
               THEN /\ dimensionError' = validateDimensions_P4(t.customWidth, t.customHeight)
                    /\ isProcessing' = FALSE
                    /\ tasks' = tasks \ {t}
                    /\ UNCHANGED encodeLog
               ELSE /\ isProcessing' = TRUE
                    /\ callToBlob_P4(t)
                    /\ UNCHANGED dimensionError
    /\ UNCHANGED <<dim, enc, compressedImage, selectedPreset, quality,
                   customWidth, customHeight, recompressionTimeout, timers, nextSeq>>
    /\ typed' = Null
    /\ UNCHANGED memoized
    /\ cancelled' = {}

\* loadImage settles inside recompressImage (part_004:247-259)
loadImageSettles_Recompress_P4(t) ==
    /\ t \in tasks /\ t.pc = "load" /\ t.kind # "file"
    /\ IF ~t.file.decodes
       THEN /\ error' = "Failed to reprocess image. Please try again."
            /\ isProcessing' = FALSE
            /\ tasks' = tasks \ {t}
            /\ recompressionTimeout' = afterRecompress_P4(t)
            /\ UNCHANGED <<dimensionError, encodeLog>>
       ELSE IF InvalidCustom(t.preset, t.customWidth, t.customHeight)
       THEN /\ dimensionError' = validateDimensions_P4(t.customWidth, t.customHeight)
            /\ isProcessing' = FALSE
            /\ tasks' = tasks \ {t}
            /\ recompressionTimeout' = afterRecompress_P4(t)
            /\ UNCHANGED <<error, encodeLog>>
       ELSE /\ callToBlob_P4(t)
            /\ UNCHANGED <<error, dimensionError, isProcessing, recompressionTimeout>>
    /\ UNCHANGED <<dim, enc, originalImage, compressedImage, selectedPreset, quality,
                   customWidth, customHeight, nextSeq>>
    /\ typed' = Null
    /\ UNCHANGED memoized
    /\ timers' = cleanup_P4(recompressionTimeout')
    /\ cancelled' = timers \ timers'

\* the toBlob callback of compressImage (part_004:217-236) and the rest of
\* the handler (261-267, 333-356): a canvas without pixels gives null, which
\* rejects; otherwise the encoder decides the size
toBlobCallback_P4(t) ==
    /\ t \in tasks /\ t.pc = "toBlob"
    /\ tasks' = tasks \ {t}
    /\ isProcessing' = FALSE
    /\ recompressionTimeout' = afterRecompress_P4(t)
    /\ \E halfUp \in BOOLEAN, size \in EncodedSizes :
         LET dims == compressImageDims_P4(t.file.width, t.file.height, t.preset,
                                          customDimensions_P4(t), halfUp)
         IN  IF dims[1] = 0 \/ dims[2] = 0
             THEN /\ error' = IF t.kind = "file"
                              THEN "Failed to process image. Please try again with a different file."
                              ELSE "Failed to reprocess image. Please try again."
                  /\ UNCHANGED compressedImage
             ELSE /\ compressedImage' =
                        [blob |-> [type |-> "image/jpeg", quality |-> t.quality, size |-> size],
                         width |-> dims[1], height |-> dims[2], size |-> size,
                         from |-> [seq |-> t.seq, image |-> t.file.name,
                                   preset |-> t.preset, quality |-> t.quality,
                                   custom |-> customDimensions_P4(t),
                                   invalidAtStart |-> t.invalidAtStart]]
                  /\ UNCHANGED error
    /\ UNCHANGED <<dim, enc, originalImage, selectedPreset, quality, dimensionError,
                   customWidth, customHeight, nextSeq, encodeLog>>
    /\ typed' = Null
    /\ UNCHANGED memoized
    /\ timers' = cleanup_P4(recompressionTimeout')
    /\ cancelled' = timers \ timers'

NextC ==
    \/ \E file \in Files_P4 : handleFile_P4(file)
    \/ \E preset \in Presets : handlePresetChange_P4(preset)
    \/ \E newQuality \in Qualities_P4 : handleQualityChange_P4(newQuality)
    \/ \E dimension \in {"width", "height"}, value \in TypedTexts :
          handleCustomDimensionChange_P4(dimension, value)
    \/ \E tm \in timers : timerFires_P4(tm)
    \/ resetApp_P4
    \/ \E t \in tasks : loadImageSettles_File_P4(t)
    \/ \E t \in tasks : loadImageSettles_Recompress_P4(t)
    \/ \E t \in tasks : toBlobCallback_P4(t)

SpecC == InitC /\ [][NextC]_vars


\* an image is loaded, nothing is in flight, no debounce timer is pending
\* and the last request left no error behind
Settled ==
    /\ originalImage # Null
    /\ tasks = {} /\ timers = {}
    /\ ~isProcessing
    /\ error = NoError /\ dimensionError = NoError
    /\ compressedImage # Null

\* C2: whenever an image is loaded, no request is in flight, no debounce
\* timer is pending and the last request succeeded, the displayed result was
\* computed from the current preset, the current quality and, for the custom
\* preset, the current custom width and height.
C2_ResultMatchesInputs ==
    Settled =>
        /\ compressedImage.from.image = originalImage.file.name
        /\ compressedImage.from.preset = selectedPreset
        /\ compressedImage.from.quality = quality
        /\ selectedPreset = "custom"
              => compressedImage.from.custom = <<customWidth, customHeight>>

\* a settled state after a recompression that a control started
C2_Witness ==
    /\ Settled
    /\ compressedImage.from.seq > 0
    /\ compressedImage.from.image = originalImage.file.name

\* C9: a result produced under a size-limited preset (etsy, shopee,
\* linkedin) is no larger than the preset's targetSize.
C9_SizeWithinTarget ==
    (compressedImage # Null /\ compressedImage.from.preset # "custom")
        => compressedImage.size <= PRESETS_P4[compressedImage.from.preset].targetSize

\* a compression under etsy succeeded with a file of at most 500 KB
C9_Witness ==
    /\ compressedImage # Null
    /\ compressedImage.from.preset = "etsy"
    /\ compressedImage.size <= KB500
    /\ ~isProcessing

\* C10: no request started while the custom preset is selected with invalid
\* bounds reaches canvas.toBlob, and none replaces compressedImage.
C10_InvalidCustomNeverEncodes ==
    /\ encodeLog # Null => ~encodeLog.invalidAtStart
    /\ compressedImage # Null => ~compressedImage.from.invalidAtStart

\* with invalid custom bounds on screen a request was rejected with a
\* dimension error and the earlier result is still shown
C10_Witness ==
    /\ InvalidCustom(selectedPreset, customWidth, customHeight)
    /\ dimensionError # NoError
    /\ tasks = {}
    /\ compressedImage # Null
    /\ ~compressedImage.from.invalidAtStart


\* a text that is a decimal integer numeral: an optional sign and digits only
IsIntegerText(value) ==
    LET body == IF Len(value) > 0 /\ value[1] \in {"-", "+"}
                THEN Tail(value) ELSE value
    IN  Len(body) > 0 /\ \A i \in 1 .. Len(body) : IsDigit(body[i])

\* C11: an edit of a custom dimension whose text is not an integer (such as
\* "12.5", or an empty or unparseable text) raises a dimension error and
\* starts neither a compression request nor a debounce timer.
C11_NonIntegerInputRejected ==
    [][(typed' # Null /\ ~IsIntegerText(typed'.value))
        => (/\ dimensionError' # NoError
            /\ tasks' = tasks
            /\ timers' \subseteq timers)]_vars

\* an empty text was typed and rejected with a dimension error
C11_Witness ==
    /\ typed # Null
    /\ typed.value = <<>>
    /\ dimensionError # NoError
    /\ ~isProcessing


\* a recompression (a request started by a control, not an upload) of
\* App.tsx whose toBlob call gets null back, leaving its await in this step
EncodeFails_App(t) ==
    /\ t \in tasks /\ t.kind # "file" /\ t.pc = "toBlob"
    /\ t \notin tasks'
    /\ canvasEmpty_App(compressImageDims_App(t.file.width, t.file.height, t.preset))

\* C12: when a recompression fails in the encode, an error is set and
\* compressedImage is left exactly as it was before the request.
C12_FailureSetsErrorKeepsResult ==
    [][\A t \in tasks :
          EncodeFails_App(t) => (error' # NoError /\ compressedImage' = compressedImage)]_vars

\* a recompression whose canvas has no pixels is waiting for toBlob while
\* an earlier result is on display
C12_Witness ==
    /\ compressedImage # Null
    /\ \E t \in tasks :
          /\ t.kind # "file" /\ t.pc = "toBlob"
          /\ canvasEmpty_App(compressImageDims_App(t.file.width, t.file.height, t.preset))

\* the same failure in part_004
EncodeFails_P4(t) ==
    /\ t \in tasks /\ t.kind # "file" /\ t.pc = "toBlob"
    /\ t \notin tasks'
    /\ \E halfUp \in BOOLEAN :
          LET dims == compressImageDims_P4(t.file.width, t.file.height, t.preset,
                                           customDimensions_P4(t), halfUp)
          IN  dims[1] = 0 \/ dims[2] = 0

\* C12 for part_004 alone: recompressImage's catch block sets the error and
\* leaves compressedImage alone.
C12_FailureSetsErrorKeepsResult_P4 ==
    [][\A t \in tasks :
          EncodeFails_P4(t) => (error' # NoError /\ compressedImage' = compressedImage)]_vars


(***************************************************************************)
(* Progress of App.tsx.  The browser delivers every pending img.onload /   *)
(* img.onerror and every pending toBlob callback; the user owes nothing.   *)
(***************************************************************************)
SpecA_Live ==
    /\ InitA
    /\ [][NextA]_vars
    /\ WF_vars(\E t \in tasks : loadImageSettles_App(t))
    /\ WF_vars(\E t \in tasks : toBlobCallback_App(t))

\* C13: every compression request that was started (isProcessing true)
\* eventually finishes, by success or by failure, with isProcessing false.
C13_ProcessingEnds == isProcessing ~> ~isProcessing

\* a request finished by success: its result is shown and nothing is
\* processing any more
C13_Witness ==
    /\ compressedImage # Null
    /\ ~isProcessing
    /\ tasks = {}


\* a step in which the user moved the quality slider or typed into a custom
\* dimension input (resetApp also sets the quality, and drops the image)
EditStep ==
    \/ typed' # Null
    \/ quality' # quality /\ originalImage' # Null

\* C14: quality and custom-dimension edits are debounced: the edit itself
\* starts no compression request, which is left to the delay timer.
C14_EditsAreDebounced == [][EditStep => tasks' = tasks]_vars

\* a custom-dimension edit has armed the debounce timer
C14_Witness ==
    /\ typed # Null
    /\ recompressionTimeout # Null
    /\ \E tm \in timers : tm.id = recompressionTimeout.id


\* C15: a state with a loaded source image, no request in flight and no
\* compressed result is never reached: a failed first upload leaves
\* originalImage null.
C15_NoImageWithoutResult ==
    (originalImage # Null /\ tasks = {} /\ ~isProcessing) => compressedImage # Null

\* a first upload failed (in decode or dimension validation) and left the
\* empty state with its error
C15_Witness ==
    /\ originalImage = Null
    /\ compressedImage = Null
    /\ tasks = {}
    /\ nextSeq = 1
    /\ error # NoError


(***************************************************************************)
(* The application of part_001 (lines 1907 on): processImage is called     *)
(* from the handlers without a debounce; the controls are disabled while   *)
(* isProcessing (CompressionControls.tsx:54, 133, 162, 270) and the        *)
(* uploader is mounted only while originalImage is null (part_001:2462).   *)
(***************************************************************************)
Files_P1 == {Photo, Icon, Strip, Animation, Oversized, Panorama, Corrupt}
Qualities_P1 == {SliderMin, DefaultQuality}

InitP ==
    /\ dim = DimIdle
    /\ enc = EncIdle
    /\ AppIdle

\* part_001:1961-1972 (Number.isInteger is true of every parseInt result)
validateDimensions_P1(width, height) ==
    IF width < 1 \/ height < 1 THEN "Width and height must be at least 1 pixel"
    ELSE IF width > 8000 \/ height > 8000
         THEN "Maximum dimensions are 8000x8000 pixels"
    ELSE NoError

\* part_001:1995-2008
validateFile_P1(file) ==
    IF file.type \notin {"image/jpeg", "image/jpg", "image/png"}
    THEN "Please select a JPG or PNG image file."
    ELSE IF file.size > 10 * 1024 * 1024
         THEN "File size must be less than 10MB."
         ELSE NoError

\* a call of processImage in flight: its arguments (customW, customH are 0
\* when the caller leaves them out) and the customWidth, customHeight of
\* the render whose getPresetSettings it closes over
Task_P1(seq, kind, pc, file, preset, q, customW, customH, cw, ch) ==
    [seq |-> seq, kind |-> kind, pc |-> pc, file |-> file, preset |-> preset,
     quality |-> q, customW |-> customW, customH |-> customH, cw |-> cw, ch |-> ch]

\* processImage up to its first await, part_001:2109-2128
processImage_P1(kind, file, preset, q, customW, customH) ==
    /\ nextSeq < MaxRequests
    /\ isProcessing' = TRUE
    /\ error' = NoError
    /\ tasks' = tasks \cup
         {Task_P1(nextSeq, kind, "toBlob", file, preset, q, customW, customH,
                  customWidth, customHeight)}
    /\ nextSeq' = nextSeq + 1

\* handleFileSelect up to its first await, part_001:2173-2183.  It is
\* memoised with useCallback on [selectedPreset, quality] (line 2190): the
\* processImage and getPresetSettings it calls are those of the render in
\* which one of the two last changed, and see that render's customWidth and
\* customHeight.
handleFileSelect_P1(file) ==
    /\ originalImage = Null
    /\ IF validateFile_P1(file) # NoError
       THEN /\ error' = validateFile_P1(file)
            /\ UNCHANGED <<compressedImage, tasks, nextSeq>>
       ELSE /\ nextSeq < MaxRequests
            /\ error' = NoError
            /\ compressedImage' = Null
            /\ tasks' = tasks \cup
                 {Task_P1(nextSeq, "file", "load", file, selectedPreset, quality,
                          0, 0, memoized[1], memoized[2])}
            /\ nextSeq' = nextSeq + 1
    /\ UNCHANGED <<dim, enc, originalImage, selectedPreset, quality, isProcessing,
                   customWidth, customHeight, dimensionError,
                   recompressionTimeout, timers, encodeLog, typed, memoized, cancelled>>

\* loadImage settles (part_001:2010-2037) and handleFileSelect runs on into
\* processImage (2184-2186) or into its catch block (2187-2189)
loadImageSettles_P1(t) ==
    /\ t \in tasks /\ t.pc = "load"
    /\ IF ~t.file.decodes
       THEN /\ error' = "Failed to load image."
            /\ tasks' = tasks \ {t}
            /\ UNCHANGED <<originalImage, isProcessing>>
       ELSE IF t.file.width > 8000 \/ t.file.height > 8000
       THEN /\ error' = "Image dimensions must not exceed 8000x8000 pixels."
            /\ tasks' = tasks \ {t}
            /\ UNCHANGED <<originalImage, isProcessing>>
       ELSE /\ originalImage' = ImageData(t.file)
            /\ isProcessing' = TRUE
            /\ error' = NoError
            /\ tasks' = (tasks \ {t}) \cup {[t EXCEPT !.pc = "toBlob"]}
    /\ UNCHANGED <<dim, enc, compressedImage, selectedPreset, quality,
                   customWidth, customHeight, dimensionError,
                   recompressionTimeout, timers, nextSeq, encodeLog, typed, memoized, cancelled>>

\* part_001:2192-2197
handlePresetChange_P1(preset) ==
    /\ originalImage # Null /\ ~isProcessing
    /\ selectedPreset' = preset
    /\ processImage_P1("preset", originalImage.file, preset, quality, 0, 0)
    /\ UNCHANGED <<dim, enc, originalImage, compressedImage, quality,
                   customWidth, customHeight, dimensionError,
                   recompressionTimeout, timers, encodeLog, typed>>
    /\ memoized' = IF preset # selectedPreset
                   THEN <<customWidth, customHeight>> ELSE memoized
    /\ UNCHANGED cancelled

\* part_001:2199-2204
handleQualityChange_P1(newQuality) ==
    /\ originalImage # Null /\ ~isProcessing
    /\ newQuality # quality
    /\ quality' = newQuality
    /\ processImage_P1("quality", originalImage.file, selectedPreset, newQuality, 0, 0)
    /\ UNCHANGED <<dim, enc, originalImage, compressedImage, selectedPreset,
                   customWidth, customHeight, dimensionError,
                   recompressionTimeout, timers, encodeLog, typed>>
    /\ memoized' = <<customWidth, customHeight>>
    /\ UNCHANGED cancelled

\* part_001:1974-1993; the inputs are mounted for the custom preset only
\* (CompressionControls.tsx:98)
handleCustomDimensionChange_P1(dimension, value) ==
  LET numValue == OrZero(parseInt(value))
      newWidth == IF dimension = "width" THEN numValue ELSE customWidth
      newHeight == IF dimension = "height" THEN numValue ELSE customHeight
      err == validateDimensions_P1(newWidth, newHeight)
  IN
    /\ originalImage # Null /\ ~isProcessing
    /\ selectedPreset = "custom"
    /\ customWidth' = newWidth
    /\ customHeight' = newHeight
    /\ dimensionError' = err
    /\ typed' = [dimension |-> dimension, value |-> value]
    /\ UNCHANGED <<memoized, cancelled>>
    /\ IF err = NoError
       THEN processImage_P1("custom", originalImage.file, selectedPreset, quality,
                            newWidth, newHeight)
       ELSE UNCHANGED <<isProcessing, error, tasks, nextSeq>>
    /\ UNCHANGED <<dim, enc, originalImage, compressedImage, selectedPreset,
                   quality, recompressionTimeout, timers, encodeLog>>

\* part_001:2217-2223
handleUploadNew_P1 ==
    /\ originalImage # Null
    /\ originalImage' = Null
    /\ compressedImage' = Null
    /\ error' = NoError
    /\ dimensionError' = NoError
    /\ UNCHANGED <<dim, enc, selectedPreset, quality, isProcessing,
                   customWidth, customHeight, recompressionTimeout, timers,
                   tasks, nextSeq, encodeLog, typed, memoized, cancelled>>

\* the MIME type processImage hands to toBlob: the source's own type when
\* there is no target size (part_001:2145-2151), image/jpeg inside
\* compressToTargetSize (2092-2096)
encodeType_P1(settings, file) ==
    IF settings.targetSize = Infinity
    THEN IF file.type = "image/png" THEN "image/png" ELSE "image/jpeg"
    ELSE "image/jpeg"

\* the rest of processImage from its encode on (part_001:2130-2170): a
\* canvas without pixels gives a null blob, which resolve(result!) passes
\* on, and the use of it throws into the catch block
toBlobCallback_P1(t) ==
    /\ t \in tasks /\ t.pc = "toBlob"
    /\ LET settings == settings_P1(t.preset, t.customW, t.customH, t.cw, t.ch)
           dims == resizeImage_P1(t.file.width, t.file.height, settings.maxWidth,
                                  settings.maxHeight, settings.exactResize)
           canvas == canvasSize_P1(dims)
       IN  IF canvas[1] = 0 \/ canvas[2] = 0
           THEN /\ error' = "TypeError"
                /\ UNCHANGED compressedImage
           ELSE /\ \E size \in EncodedSizes :
                     compressedImage' =
                        [blob |-> [type |-> encodeType_P1(settings, t.file),
                                   size |-> size],
                         width |-> dims[1], height |-> dims[2], size |-> size,
                         from |-> [seq |-> t.seq, image |-> t.file.name,
                                   preset |-> t.preset, quality |-> t.quality,
                                   custom |-> <<settings.maxWidth, settings.maxHeight>>]]
                /\ UNCHANGED error
    /\ isProcessing' = FALSE
    /\ tasks' = tasks \ {t}
    /\ UNCHANGED <<dim, enc, originalImage, selectedPreset, quality,
                   customWidth, customHeight, dimensionError,
                   recompressionTimeout, timers, nextSeq, encodeLog, typed, memoized, cancelled>>

NextP ==
    \/ \E file \in Files_P1 : handleFileSelect_P1(file)
    \/ \E preset \in Presets : handlePresetChange_P1(preset)
    \/ \E newQuality \in Qualities_P1 : handleQualityChange_P1(newQuality)
    \/ \E dimension \in {"width", "height"}, value \in TypedTexts :
          handleCustomDimensionChange_P1(dimension, value)
    \/ handleUploadNew_P1
    \/ \E t \in tasks : loadImageSettles_P1(t)
    \/ \E t \in tasks : toBlobCallback_P1(t)

SpecP == InitP /\ [][NextP]_vars

\* C16: every published CompressedImage is encoded as image/jpeg, whatever
\* the preset and the format of the source.
C16_AlwaysJpeg ==
    compressedImage # Null => compressedImage.blob.type = "image/jpeg"

\* a PNG source published under a target-size preset
C16_Witness ==
    /\ compressedImage # Null
    /\ originalImage # Null
    /\ originalImage.file.type = "image/png"
    /\ compressedImage.from.preset = "etsy"
    /\ compressedImage.blob.type = "image/jpeg"

\* auxiliary: the versions that always pass 'image/jpeg' to toBlob
\* (App.tsx:159-176, part_004:217-236) satisfy C16_AlwaysJpeg; TLC checks
\* this under SpecA and SpecC
C16_JpegOnly_P4 ==
    compressedImage # Null => compressedImage.blob.type \in {"image/jpeg"}


(***************************************************************************)
(* The upload path of part_004 on its own (handleFile, its continuation,   *)
(* the encode callback and resetApp), run over files within, exactly at    *)
(* and beyond the type, size and dimension limits.                         *)
(***************************************************************************)
Files_Upload == {AtLimit, Animation, Oversized, Panorama}

NextU ==
    \/ \E file \in Files_Upload : handleFile_P4(file)
    \/ resetApp_P4
    \/ \E t \in tasks : loadImageSettles_File_P4(t)
    \/ \E t \in tasks : toBlobCallback_P4(t)

SpecU == InitC /\ [][NextU]_vars

\* the limits as the uploader states them: JPG or PNG, at most 10 MB, at
\* most 8000 px on each axis
TypeAndSizeOk(file) ==
    file.type \in {"image/jpeg", "image/png"} /\ file.size <= 10 * MB1
DimensionsOk(file) == file.width <= 8000 /\ file.height <= 8000
\* the upload request t leaves loadImage in this step
UploadDecoded(t) ==
    t \in tasks /\ t.kind = "file" /\ t.pc = "load" /\ t \notin tasks' /\ t.file.decodes

\* C17: a file that is not JPEG/PNG, or larger than 10 MB, or wider or
\* higher than 8000 px once decoded is rejected (an error is set, it never
\* becomes originalImage and no encode is started for it); a file within
\* the limits, also exactly at them, is accepted as originalImage.
C17_UploadLimits ==
    [][/\ originalImage' # Null =>
            TypeAndSizeOk(originalImage'.file) /\ DimensionsOk(originalImage'.file)
       /\ \A t \in tasks' : t.pc = "toBlob" =>
            TypeAndSizeOk(t.file) /\ DimensionsOk(t.file)
       /\ \A file \in Files_Upload : handleFile_P4(file) =>
            IF TypeAndSizeOk(file)
            THEN \E t \in tasks' \ tasks : t.file = file
            ELSE error' # NoError /\ tasks' = tasks /\ UNCHANGED isProcessing
       /\ \A t \in tasks : UploadDecoded(t) =>
            IF DimensionsOk(t.file)
            THEN originalImage' = ImageData(t.file)
            ELSE error' # NoError /\ tasks' = tasks \ {t}
                 /\ UNCHANGED <<originalImage, isProcessing>>]_vars

\* the file exactly at both limits was accepted and compressed
C17_Witness ==
    /\ originalImage # Null
    /\ originalImage.file.size = MAX_FILE_SIZE
    /\ originalImage.file.width = MAX_DIMENSIONS
    /\ originalImage.file.height = MAX_DIMENSIONS
    /\ compressedImage # Null
    /\ error = NoError


\* a step that switches the preset of a loaded image
PresetSwitch == selectedPreset' # selectedPreset /\ originalImage' # Null

\* C18: switching presets leaves the Custom fields alone: handlePresetChange
\* changes neither customWidth nor customHeight.
C18_PresetKeepsCustomFields ==
    [][PresetSwitch => (customWidth' = customWidth /\ customHeight' = customHeight)]_vars

\* a preset was switched to and the Custom fields hold that preset's bounds
C18_Witness ==
    /\ originalImage # Null
    /\ selectedPreset = "shopee"
    /\ customWidth = PRESETS_P4["shopee"].maxWidth
    /\ customHeight = PRESETS_P4["shopee"].maxHeight

\* auxiliary: part_001's handlePresetChange (2192-2197) does leave the
\* Custom fields alone; TLC checks this under SpecP
C18_PresetKeepsCustomFields_P1 ==
    [][PresetSwitch => UNCHANGED <<customWidth, customHeight>>]_vars


\* the reference resolution of the specification: ratio = min(W/w, H/h, 1),
\* result (round(w * ratio), round(h * ratio)) with round-half-up
FitWithinBounds(w, h, W, H) ==
    IF w <= W /\ h <= H THEN <<w, h>>
    ELSE IF W * h <= H * w
         THEN <<W, MathRound(h * W, w, TRUE)>>
         ELSE <<MathRound(w * H, h, TRUE), H>>
Reference == FitWithinBounds(dim.in.w, dim.in.h, BoundW, BoundH)

\* C19: for every source size and aspect-preserving bounds, the dimensions
\* the code computes (clamp on the width, then on the height) equal the
\* reference result (round(w*r), round(h*r)), r = min(W/w, H/h, 1).
C19_MatchesReference ==
    /\ FitWithin => dim.out = <<DblOfInt(Reference[1]), DblOfInt(Reference[2])>>
    /\ (DimDone /\ dim.by = "App" /\ dim.in.preset # "linkedin") =>
          /\ RatEq(dim.out[1], IntRat(Reference[1]))
          /\ RatEq(dim.out[2], IntRat(Reference[2]))

\* part_004 resolved 5x3 into custom bounds 4x2 as 4x2: the width clamp
\* leaves a height of round(2.4) = 2, which the height clamp accepts
C19_Witness ==
    /\ FitWithin
    /\ dim.by = "P4"
    /\ dim.in.w = 5 /\ dim.in.h = 3 /\ dim.in.custom = <<4, 2>>
    /\ dim.out = <<DblOfInt(4), DblOfInt(2)>>
    /\ Reference = <<3, 2>>


\* the requests being processed: every recompression from its start on, and
\* an upload from the moment handleFile sets isProcessing (part_004:320)
InFlight == {t \in tasks : t.kind # "file" \/ t.pc = "toBlob"}

\* C20: at most one compression request is in flight at any time.
C20_AtMostOneInFlight == Cardinality(InFlight) <= 1

\* a dimension edit left its debounce timer armed while the recompression
\* the settings effect started for the same edit is in flight: the timer's
\* callback (part_004:420-427) starts another without looking at isProcessing
C20_Witness ==
    /\ isProcessing
    /\ \E t \in InFlight, tm \in timers :
          /\ t.kind = "effect"
          /\ tm.id + 1 = t.seq
          /\ tm.file = t.file


\* C21: when an image is loaded and no request is in flight, switching to a
\* different preset starts a compression request in the same step (no
\* debounce), and that request carries the newly selected preset and, for
\* custom, the custom bounds in force after the switch.
C21_PresetSwitchCompressesNow ==
    [][(PresetSwitch /\ originalImage # Null /\ tasks = {}) =>
          /\ isProcessing'
          /\ \E t \in tasks' :
                /\ t.file = originalImage.file
                /\ t.preset = selectedPreset'
                /\ t.quality = quality
                /\ customDimensions_P4(t) =
                       IF selectedPreset' = "custom"
                       THEN <<customWidth', customHeight'>> ELSE <<>>]_vars

\* the request of a switch to shopee is in flight, alone
C21_Witness ==
    /\ originalImage # Null
    /\ selectedPreset = "shopee"
    /\ isProcessing
    /\ \E t \in tasks : tasks = {t} /\ t.kind = "effect" /\ t.preset = "shopee"

\* auxiliary: the same for src/src/App.tsx (266-283), whose handler passes
\* the new preset to compressImage itself; TLC checks this under SpecA
C21_PresetSwitchCompressesNow_App ==
    [][(PresetSwitch /\ originalImage # Null /\ tasks = {}) =>
          /\ isProcessing'
          /\ \E t \in tasks' : t.file = originalImage.file /\ t.preset = selectedPreset'
                               /\ t.quality = quality]_vars


\* the upload requests this step starts
UploadsStarted == {t \in tasks' \ tasks : t.kind = "file" /\ t.pc = "load"}

\* C22: uploading a valid file starts the initial compression at once, with
\* the preset, the quality and the custom width and height selected at the
\* moment of the upload.
C22_UploadUsesCurrentSettings ==
    [][\A t \in UploadsStarted :
          /\ t.preset = selectedPreset
          /\ t.quality = quality
          /\ t.preset = "custom" =>
                LET settings == settings_P1(t.preset, t.customW, t.customH, t.cw, t.ch)
                IN  <<settings.maxWidth, settings.maxHeight>> = <<customWidth, customHeight>>]_vars

\* an upload under the custom preset after the Custom fields were edited
C22_Witness ==
    /\ selectedPreset = "custom"
    /\ <<customWidth, customHeight>> # <<DefaultCustomWidth, DefaultCustomHeight>>
    /\ \E t \in tasks : t.kind = "file" /\ t.preset = "custom"


\* a step in which handleQualityChange moves the slider of a loaded image
QualityChange == quality' # quality /\ originalImage # Null /\ originalImage' # Null

\* C23: the compression request handleQualityChange(q) starts on a loaded
\* image encodes at quality q, the new slider value.
C23_QualityRequestUsesNewQuality ==
    [][QualityChange =>
          \E t \in tasks' \ tasks : t.kind = "quality" /\ t.quality = quality']_vars

\* the request of a quality change is in flight with the slider at 50
C23_Witness ==
    /\ quality = SliderMin
    /\ isProcessing
    /\ \E t \in tasks : t.kind = "quality" /\ t.pc = "toBlob"


\* the requests a firing debounce timer starts in this step
TimerRequests == {t \in tasks' \ tasks : t.kind = "timer"}

\* C24: the recompression a firing debounce timer starts uses the custom
\* width and height as they are after the edit that armed it (the values
\* now in the fields), not those from before the edit.
C24_TimerUsesLatestDimensions ==
    [][\A t \in TimerRequests :
          t.customWidth = customWidth /\ t.customHeight = customHeight]_vars

\* a timer's request is in flight under the custom preset
C24_Witness ==
    /\ selectedPreset = "custom"
    /\ isProcessing
    /\ \E t \in tasks : t.kind = "timer" /\ t.preset = "custom" /\ t.pc = "load"


(***************************************************************************)
(* The debounce machinery of part_004 on its own: one photo, the custom    *)
(* preset and one other, the Custom fields, the timer, reset, and the      *)
(* continuations of the requests.                                          *)
(***************************************************************************)
NextT ==
    \/ handleFile_P4(Photo)
    \/ \E preset \in {"etsy", "custom"} : handlePresetChange_P4(preset)
    \/ \E dimension \in {"width", "height"}, value \in TypedTexts :
          handleCustomDimensionChange_P4(dimension, value)
    \/ \E tm \in timers : timerFires_P4(tm)
    \/ resetApp_P4
    \/ \E t \in tasks : loadImageSettles_File_P4(t)
    \/ \E t \in tasks : loadImageSettles_Recompress_P4(t)
    \/ \E t \in tasks : toBlobCallback_P4(t)

SpecT == InitC /\ [][NextT]_vars

\* C25: at most one debounce timer is pending at any time, and a
\* custom-dimension edit leaves none of the timers of earlier edits pending.
C25_AtMostOneTimer ==
    [][/\ Cardinality(timers') <= 1
       /\ typed' # Null => timers' \cap timers = {}]_vars

\* an edit cleared the still pending timer of the edit before it and armed
\* its own
C25_Witness ==
    /\ typed # Null
    /\ cancelled # {}
    /\ \E tm \in timers : timers = {tm} /\ recompressionTimeout = [id |-> tm.id]
                          /\ tm \notin cancelled


\* a step of resetApp on a loaded image
ResetStep == originalImage # Null /\ originalImage' = Null

\* C26: a preset switch or a reset clears any pending recompression: after
\* the step no debounce timer of an earlier edit is pending (none can fire
\* and start a request), and the step itself starts no timer request.
C26_SwitchOrResetClearsTimer ==
    [][(PresetSwitch \/ ResetStep) =>
          /\ timers' = {}
          /\ recompressionTimeout' = Null
          /\ \A t \in tasks' \ tasks : t.kind # "timer"]_vars

\* a preset switch away from custom cleared the pending timer of an edit
C26_Witness ==
    /\ originalImage # Null
    /\ selectedPreset # "custom"
    /\ cancelled # {}
    /\ timers = {}
    /\ recompressionTimeout = Null


\* the requests whose decode or encode is still pending, from the point
\* where their handler has set isProcessing
Pending == {t \in InFlight : t.pc \in {"load", "toBlob"}}

\* C27: isProcessing is true exactly while a compression request is in
\* flight.
C27_ProcessingIffInFlight == isProcessing <=> Pending # {}

\* two recompressions overlap
C27_Witness ==
    /\ isProcessing
    /\ \E t \in Pending, u \in Pending : t.seq < u.seq /\ t.kind # "file" /\ u.kind # "file"


\* C28: a compression result is only ever published for the currently
\* loaded source image: with no image loaded compressedImage is null, and a
\* result on display was computed from the image now loaded.
C28_ResultBelongsToLoadedImage ==
    compressedImage # Null =>
        /\ originalImage # Null
        /\ compressedImage.from.image = originalImage.file.name

\* the application was reset while a request of the previous image was in
\* its encode
C28_Witness ==
    /\ originalImage = Null
    /\ compressedImage = Null
    /\ \E t \in tasks : t.pc = "toBlob"


\* C29: the blob compressToTargetSize returns was encoded at the returned
\* finalQuality, and when no tried quality meets the budget the returned
\* blob is the one encoded at the floor quality 50.
C29_BlobEncodedAtFinalQuality ==
    EncReturned =>
        /\ enc.blob.quality = finalQuality
        /\ TriedFitting = {} => enc.blob.quality = QualityFloor

\* the search ran from 80 to the floor without any blob meeting the budget
C29_Witness ==
    /\ EncReturned
    /\ enc.initialQuality = 80
    /\ TriedFitting = {}
    /\ finalQuality = QualityFloor

\* the encode operations the search has performed, and its end
Encodes == Cardinality(enc.tried)
EncTerminated == enc.pc \in {"done", "threw"}

\* C30 as stated: from a hint >= 50 the search performs at most
\* (hint - floor) / step encodes.
C30_EncodeBound_AsStated ==
    enc.initialQuality >= QualityFloor =>
        Encodes * QualityStep <= enc.initialQuality - QualityFloor

\* the number of qualities hint, hint - 5, ... strictly above the floor,
\* and one encode at least
MaxEncodes(hint) ==
    LET above == (hint - QualityFloor + QualityStep - 1) \div QualityStep
    IN  IF above < 1 THEN 1 ELSE above

\* C30: the budgeted quality search always terminates, and from a hint
\* >= 50 it performs at most max(1, ceil((hint - floor) / step)) encodes.
C30_TerminatesWithinBound ==
    /\ <>EncTerminated
    /\ [](enc.initialQuality >= QualityFloor =>
             Encodes <= MaxEncodes(enc.initialQuality))

\* the longest search: from 95 every quality down to 55 is encoded
C30_Witness ==
    /\ EncReturned
    /\ enc.initialQuality = SliderMax
    /\ Encodes = MaxEncodes(SliderMax)

=============================================================================
